---- MODULE Spec2Model ----
(***************************************************************************)
(* The video-translation job service: one PostgreSQL table                 *)
(* (translation_jobs), a file namespace under ./storage, and the tRPC      *)
(* handlers uploadVideo, createTranslationJob, getTranslationJob,          *)
(* getTranslationJobs and updateTranslationJob.  Handlers run concurrently; *)
(* every await of a handler is a step of its own.  The page of the client  *)
(* (App, VideoUpload, JobsList) calls the handlers and keeps the job list.  *)
(***************************************************************************)
EXTENDS Integers, Sequences, FiniteSets, TLC

VARIABLES
    translation_jobs,   \* the rows of the table, in insertion order
    id_seq,             \* the serial sequence behind translation_jobs.id
    files,              \* the files: where a path leads -> the bytes there
    dirs,               \* the directories made, each as where its path leads
    now,                \* the wall clock, counted in database instants
    pc,                 \* per caller: where its handler is suspended
    req,                \* per caller: the locals of its suspended handler
    last,               \* the handler call that completed most recently
    createdBy,          \* id handed back by a creation -> the handler that did
    budget,             \* handler calls the gateway still accepts
    client              \* the page in the browser: its React state, its requests

vars ==
    <<translation_jobs, id_seq, files, dirs, now, pc, req, last, createdBy, budget,
      client>>

----------------------------------------------------------------------------
\* Bounds of the exploration.

\* Handler calls the gateway accepts after start-up.
MaxCalls == 3
\* Database instants (microseconds in PostgreSQL) per JavaScript millisecond.
TicksPerMs == 2
\* Last instant of the clock: the first one of the second millisecond.
MaxNow == TicksPerMs

\* Requests whose handler may be suspended at an await at the same time.
Procs == {1, 2}

----------------------------------------------------------------------------
\* schema.ts

\* supportedLanguagesSchema as it would be with a thirteenth code.
supportedLanguagesSchemaWithUnknown ==
    {"en", "es", "fr", "de", "it", "pt", "ru", "ja", "ko", "zh", "ar", "hi", "xx"}

supportedLanguagesSchema ==
    {"en", "es", "fr", "de", "it", "pt", "ru", "ja", "ko", "zh", "ar", "hi"}

translationStatusSchema == {"pending", "processing", "completed", "failed"}

\* SQL NULL / JavaScript null.
Null == "<null>"
\* A key that the input object does not carry (JavaScript undefined).
Absent == "<absent>"

\* The keys of updateTranslationJobInputSchema besides id.
UpdateFields ==
    {"detected_language", "status", "translated_file_path", "transcript",
     "translated_transcript", "error_message"}

\* z.string().nullable().optional() over the strings in S.
NullableOptional(S) == S \cup {Null, Absent}

\* The objects updateTranslationJobInputSchema accepts (without id), with
\* languages from L, statuses from St and strings from S.
updateTranslationJobInputSchema(L, St, S) ==
    [detected_language : (L \cap supportedLanguagesSchema) \cup {Absent},
     status : (St \cap translationStatusSchema) \cup {Absent},
     translated_file_path : NullableOptional(S),
     transcript : NullableOptional(S),
     translated_transcript : NullableOptional(S),
     error_message : NullableOptional(S)]

\* The keys an update input carries.
Supplied(updateData) == {f \in UpdateFields : updateData[f] # Absent}

\* A JavaScript number given as a fraction num/den (den > 0).
Num(n) == [num |-> n, den |-> 1]
Half(n) == [num |-> n, den |-> 2]
IsInteger(x) == x.num % x.den = 0

\* createTranslationJobInputSchema as it would be without min(1) on the path.
createTranslationJobInputSchemaAnyPath(input) ==
    /\ input.original_filename # ""
    /\ input.target_language \in supportedLanguagesSchema

\* createTranslationJobInputSchema: min(1) strings and a supported language.
createTranslationJobInputSchema(input) ==
    /\ input.original_filename # ""
    /\ input.original_file_path # ""
    /\ input.target_language \in supportedLanguagesSchema

\* uploadVideoInputSchema: min(1) filename, any string, supported language.
uploadVideoInputSchema(input) ==
    /\ input.filename # ""
    /\ input.target_language \in supportedLanguagesSchema

----------------------------------------------------------------------------
\* db/schema.ts: the columns of translation_jobs and their defaults.

Columns ==
    {"id", "original_filename", "original_file_path", "detected_language",
     "target_language", "status", "translated_file_path", "transcript",
     "translated_transcript", "error_message", "created_at", "updated_at"}

\* ColumnDefault as it would be if the id were taken from the clock.
ColumnDefaultIdFromClock(c, nextval, dbnow) ==
    CASE c = "id" -> dbnow + 1
      [] c = "status" -> "pending"
      [] c \in {"created_at", "updated_at"} -> dbnow
      [] OTHER -> Null

\* ColumnDefault as it would be if the text columns defaulted to ''.
ColumnDefaultEmptyText(c, nextval, dbnow) ==
    CASE c = "id" -> nextval
      [] c = "status" -> "pending"
      [] c \in {"created_at", "updated_at"} -> dbnow
      [] OTHER -> ""

\* The default of column c when an insert leaves it out: serial for id,
\* 'pending' for status, now() for both timestamps, NULL otherwise.
ColumnDefault(c, nextval, dbnow) ==
    CASE c = "id" -> nextval
      [] c = "status" -> "pending"
      [] c \in {"created_at", "updated_at"} -> dbnow
      [] OTHER -> Null

\* INSERT INTO translation_jobs (DOMAIN values) VALUES (...) RETURNING *.
InsertRow(values, nextval, dbnow) ==
    [c \in Columns |->
        IF c \in DOMAIN values THEN values[c] ELSE ColumnDefault(c, nextval, dbnow)]

\* UpdateRow as it would be if a key left out of the input were written as NULL.
UpdateRowOverwritingOmitted(row, set) ==
    [c \in Columns |->
        IF c \notin DOMAIN set THEN row[c]
        ELSE IF c # "updated_at" /\ set[c] = Absent THEN Null
        ELSE set[c]]

\* UpdateRow as it would be if a null in the input were skipped like a missing key.
UpdateRowSkippingNull(row, set) ==
    [c \in Columns |->
        IF c \in DOMAIN set /\ (c = "updated_at" \/ set[c] \notin {Absent, Null})
        THEN set[c] ELSE row[c]]

\* UpdateRow as it would be if the update also stamped created_at.
UpdateRowResettingCreatedAt(row, set) ==
    [c \in Columns |->
        IF c = "created_at" THEN set.updated_at
        ELSE IF c \in DOMAIN set /\ (c = "updated_at" \/ set[c] # Absent)
        THEN set[c] ELSE row[c]]

\* UpdateRow as it would be if a completed job kept its status.
UpdateRowKeepingCompleted(row, set) ==
    [c \in Columns |->
        IF c = "status" /\ row.status = "completed" THEN row[c]
        ELSE IF c \in DOMAIN set /\ (c = "updated_at" \/ set[c] # Absent)
        THEN set[c] ELSE row[c]]

\* UPDATE translation_jobs SET (the keys of set carrying a value).
UpdateRow(row, set) ==
    [c \in Columns |->
        IF c \in DOMAIN set /\ (c = "updated_at" \/ set[c] # Absent)
        THEN set[c] ELSE row[c]]

\* A row-shaped value standing for "no row".
NoRow == [c \in Columns |-> IF c \in {"id", "created_at", "updated_at"} THEN 0 ELSE Null]

----------------------------------------------------------------------------
\* Clocks and timestamp conversion.

\* A timestamp as a JavaScript Date holds it: whole milliseconds.
ToDate(instant) == (instant \div TicksPerMs) * TicksPerMs

\* new Date() in a handler.
NewDate == ToDate(now)

\* Date.now(): the millisecond count.
DateNow == now \div TicksPerMs

\* A row as the driver hands it to the handler: timestamps become Dates.
FromDriver(row) ==
    [row EXCEPT !.created_at = ToDate(row.created_at),
                !.updated_at = ToDate(row.updated_at)]

----------------------------------------------------------------------------
\* Queries.

\* WHERE id = $1 against the integer column: the rows matched.
RowsWithId(id) ==
    {i \in 1..Len(translation_jobs) :
        translation_jobs[i].id * id.den = id.num}

\* Binding $1 to the integer column succeeds only for an integer.
BindsToInteger(id) == IsInteger(id)

\* The permutations of 1..n.
Permutations1(n) ==
    {f \in [1..n -> 1..n] : \A i, j \in 1..n : f[i] = f[j] => i = j}

\* OrderByCreatedAtDesc as it would be with the LIMIT 1 of getTranslationJob.
OrderByCreatedAtDescLimit1(rows) ==
    IF rows = <<>> THEN {<<>>}
    ELSE {<<r>> : r \in {rows[i] : i \in {j \in 1..Len(rows) :
                    \A k \in 1..Len(rows) : rows[j].created_at >= rows[k].created_at}}}

\* ORDER BY created_at DESC: every ordering of the rows in which created_at
\* never increases.  SQL leaves the order of equal keys open.
OrderByCreatedAtDesc(rows) ==
    {[i \in 1..Len(rows) |-> rows[f[i]]] : f \in
        {g \in Permutations1(Len(rows)) :
            \A i \in 1..(Len(rows) - 1) :
                rows[g[i]].created_at >= rows[g[i + 1]].created_at}}

----------------------------------------------------------------------------
\* Results handed to the caller.

JobResult(row) == [kind |-> "job", job |-> FromDriver(row)]
NullResult == [kind |-> "null"]

\* ErrorResult as it would be if a handler swallowed the error it caught.
SwallowedError == [kind |-> "null"]

ErrorResult == [kind |-> "error"]
ListResult(rows) == [kind |-> "list", jobs |-> [i \in 1..Len(rows) |-> FromDriver(rows[i])]]

NoReq == [op |-> "none"]
NoCall == [op |-> "none"]

\* No file chosen (selectedFile null).
NoFile == [name |-> "", type |-> <<>>, size |-> 0, bytes |-> <<>>]

\* The page before it is opened: the useState defaults of App and VideoUpload,
\* no request sent.
NoClient ==
    [jobs |-> <<>>, isUploading |-> FALSE, uploadError |-> Null,
     selectedFile |-> NoFile, targetLanguage |-> "",
     upload |-> [state |-> "none"],
     polls |-> 0, responses |-> <<>>, loadsLeft |-> 0]
----------------------------------------------------------------------------
\* Base64 (Buffer.from(s, 'base64')) over strings given as character sequences.

B64Chars ==
    <<"A", "B", "C", "D", "E", "F", "G", "H", "I", "J", "K", "L", "M",
      "N", "O", "P", "Q", "R", "S", "T", "U", "V", "W", "X", "Y", "Z",
      "a", "b", "c", "d", "e", "f", "g", "h", "i", "j", "k", "l", "m",
      "n", "o", "p", "q", "r", "s", "t", "u", "v", "w", "x", "y", "z",
      "0", "1", "2", "3", "4", "5", "6", "7", "8", "9", "+", "/">>

\* The decoder also takes the two characters of the URL-safe alphabet.
IsB64Char(c) == (\E i \in 1..64 : B64Chars[i] = c) \/ c \in {"-", "_"}

Sextet(c) ==
    IF c = "-" THEN 62
    ELSE IF c = "_" THEN 63
    ELSE (CHOOSE i \in 1..64 : B64Chars[i] = c) - 1

\* The characters before the first '='.
RECURSIVE BeforePadding(_)
BeforePadding(s) ==
    IF s = <<>> \/ Head(s) = "=" THEN <<>>
    ELSE <<Head(s)>> \o BeforePadding(Tail(s))

\* The six-bit values of the alphabet characters of s, others skipped.
Sextets(s) ==
    LET t == SelectSeq(BeforePadding(s), IsB64Char)
    IN [i \in 1..Len(t) |-> Sextet(t[i])]

\* The bytes the six-bit values spell: every 4 values give 3 bytes, a tail
\* of 2 gives 1 byte, a tail of 3 gives 2.
Base64Decode(s) ==
    LET x == Sextets(s)
        At(i) == IF i <= Len(x) THEN x[i] ELSE 0
        Quad(g) == At(4 * g + 1) * 262144 + At(4 * g + 2) * 4096
                      + At(4 * g + 3) * 64 + At(4 * g + 4)
        Shift(k) == CASE k % 3 = 0 -> 65536 [] k % 3 = 1 -> 256 [] OTHER -> 1
    IN [k \in 1..((Len(x) * 6) \div 8) |->
            (Quad((k - 1) \div 3) \div Shift(k - 1)) % 256]

----------------------------------------------------------------------------
\* The inputs the callers send.

\* createTranslationJob inputs.
CreateInputs ==
    {[original_filename |-> "test_video.mp4",
      original_file_path |-> "/uploads/test_video.mp4",
      target_language |-> "es"]}

\* uploadVideo inputs: one filename, the payload "a".
UploadInputs ==
    {[filename |-> "same-name.mp4", file_data |-> <<"Y", "Q", "=", "=">>,
      target_language |-> "en"]}

\* What Math.random().toString(36).substring(2, 8) may yield.
RandomIds == {"k3x9qa", "z"}

\* Ids sent to getTranslationJob and updateTranslationJob: the first row's,
\* one no row ever has, and a number that is not an integer.
IdInputs == {Num(1), Num(MaxCalls + 1), Half(3)}

\* An update input carrying nothing but the id.
NoUpdate == [f \in UpdateFields |-> Absent]

\* updateTranslationJob inputs (without the id).
UpdateInputs ==
    {NoUpdate,
     [NoUpdate EXCEPT !.status = "processing"],
     [NoUpdate EXCEPT !.transcript = "Hi"],
     [NoUpdate EXCEPT !.transcript = Null]}

\* updateTranslationJob calls: every input on the first row, and a status
\* change on the other ids.
UpdateCalls ==
    {<<Num(1), u>> : u \in UpdateInputs}
        \cup {<<id, [NoUpdate EXCEPT !.status = "processing"]>> : id \in IdInputs}


----------------------------------------------------------------------------
\* State after start-up: empty table, empty storage, no handler running.

Init ==
    /\ translation_jobs = <<>>
    /\ id_seq = 1
    /\ files = <<>>
    /\ dirs = {}
    /\ now = 0
    /\ pc = [p \in Procs |-> "idle"]
    /\ req = [p \in Procs |-> NoReq]
    /\ last = NoCall
    /\ createdBy = <<>>
    /\ budget = MaxCalls
    /\ client = NoClient

\* The gateway accepts one more call.
Accept ==
    /\ budget > 0
    /\ budget' = budget - 1

\* createdBy with id recorded as handed back by handler.
Created(id, handler) ==
    [i \in DOMAIN createdBy \cup {id} |-> IF i = id THEN handler ELSE createdBy[i]]

\* A request whose handler suspends takes the first free slot.
FreeSlot(p) ==
    /\ pc[p] = "idle"
    /\ \A q \in Procs : pc[q] = "idle" => p <= q

\* The clock advances.
Tick ==
    /\ now < MaxNow
    /\ now' = now + 1
    /\ UNCHANGED <<client, translation_jobs, id_seq, files, dirs, pc, req, last,
                   createdBy, budget>>

----------------------------------------------------------------------------
\* createTranslationJob: a single INSERT ... RETURNING.

\* CreateValues as it would be with the filename stored as the path.
CreateValuesPathFromFilename(input) ==
    [original_filename |-> input.original_filename,
     original_file_path |-> input.original_filename,
     target_language |-> input.target_language,
     status |-> "pending",
     detected_language |-> Null,
     translated_file_path |-> Null,
     transcript |-> Null,
     translated_transcript |-> Null,
     error_message |-> Null]

CreateValues(input) ==
    [original_filename |-> input.original_filename,
     original_file_path |-> input.original_file_path,
     target_language |-> input.target_language,
     status |-> "pending",
     detected_language |-> Null,
     translated_file_path |-> Null,
     transcript |-> Null,
     translated_transcript |-> Null,
     error_message |-> Null]

createTranslationJob(input) ==
    /\ createTranslationJobInputSchema(input)
    /\ Accept
    /\ LET row == InsertRow(CreateValues(input), id_seq, now)
       IN /\ translation_jobs' = Append(translation_jobs, row)
          /\ id_seq' = id_seq + 1
          /\ createdBy' = Created(row.id, "create")
          /\ last' = [op |-> "create", input |-> input, after |-> row,
                      result |-> JobResult(row)]
    /\ UNCHANGED <<client, files, dirs, now, pc, req>>

----------------------------------------------------------------------------
\* getTranslationJob: SELECT ... WHERE id = $1 LIMIT 1.

\* The row with this id as the table holds it now (NoRow when none does).
RowAt(id) ==
    IF BindsToInteger(id) /\ RowsWithId(id) # {}
    THEN translation_jobs[CHOOSE i \in RowsWithId(id) : TRUE]
    ELSE NoRow

\* getTranslationJob as it would be if a read stamped the row it returns.
getTranslationJobStampingRow(id) ==
    /\ Accept
    /\ translation_jobs' =
          [i \in 1..Len(translation_jobs) |->
              IF i \in RowsWithId(id)
              THEN [translation_jobs[i] EXCEPT !.updated_at = now]
              ELSE translation_jobs[i]]
    /\ last' = [op |-> "get", id |-> id,
                result |->
                    IF ~BindsToInteger(id) THEN ErrorResult
                    ELSE IF RowsWithId(id) = {} THEN NullResult
                    ELSE JobResult(RowAt(id))]
    /\ UNCHANGED <<client, id_seq, files, dirs, now, pc, req, createdBy>>

getTranslationJob(id) ==
    /\ Accept
    /\ last' = [op |-> "get", id |-> id,
                result |->
                    IF ~BindsToInteger(id) THEN ErrorResult
                    ELSE IF RowsWithId(id) = {} THEN NullResult
                    ELSE JobResult(RowAt(id))]
    /\ UNCHANGED <<client, translation_jobs, id_seq, files, dirs, now, pc, req, createdBy>>

----------------------------------------------------------------------------
\* getTranslationJobs: SELECT ... ORDER BY created_at DESC.

getTranslationJobs ==
    /\ Accept
    /\ \E rows \in OrderByCreatedAtDesc(translation_jobs) :
          last' = [op |-> "list", result |-> ListResult(rows)]
    /\ UNCHANGED <<client, translation_jobs, id_seq, files, dirs, now, pc, req, createdBy>>

----------------------------------------------------------------------------
\* updateTranslationJob: the handler builds the SET object, reading its own
\* clock, and awaits UPDATE ... WHERE id = $1 RETURNING.

\* { ...updateData, updated_at: new Date() }
UpdateSet(updateData) ==
    [c \in UpdateFields \cup {"updated_at"} |->
        IF c = "updated_at" THEN NewDate ELSE updateData[c]]

updateTranslationJobCall(p, id, updateData) ==
    /\ FreeSlot(p)
    /\ Accept
    /\ pc' = [pc EXCEPT ![p] = "update"]
    /\ req' = [req EXCEPT ![p] =
                  [op |-> "update", id |-> id, updateData |-> updateData,
                   set |-> UpdateSet(updateData), base |-> RowAt(id)]]
    /\ UNCHANGED <<client, translation_jobs, id_seq, files, dirs, now, last, createdBy>>

\* UpdateWhereId as it would be if the rows the UPDATE returns replaced the table.
UpdateWhereIdKeepingReturned(id, set) ==
    [i \in 1..Cardinality(RowsWithId(id)) |->
        UpdateRow(translation_jobs[CHOOSE j \in RowsWithId(id) : TRUE], set)]

\* The table after UPDATE ... SET set WHERE id = $1.
UpdateWhereId(id, set) ==
    [i \in 1..Len(translation_jobs) |->
        IF i \in RowsWithId(id) THEN UpdateRow(translation_jobs[i], set)
        ELSE translation_jobs[i]]

\* The update that completed just before, when it changed the row with this
\* id while request p was suspended in its own update of that row.
Overlaps(p, id) ==
    /\ last.op = "update"
    /\ last.found
    /\ last.id = id
    /\ p \in last.suspended

updateTranslationJobCommit(p) ==
    /\ pc[p] = "update"
    /\ LET id == req[p].id
           found == BindsToInteger(id) /\ RowsWithId(id) # {}
           before == RowAt(id)
           after == IF found THEN UpdateRow(before, req[p].set) ELSE NoRow
       IN /\ translation_jobs' =
                IF found THEN UpdateWhereId(id, req[p].set) ELSE translation_jobs
          /\ last' = [op |-> "update", proc |-> p, id |-> id,
                      updateData |-> req[p].updateData,
                      base |-> req[p].base,
                      found |-> found, before |-> before, after |-> after,
                      overlapped |-> Overlaps(p, id),
                      earlier |-> IF Overlaps(p, id) THEN last.updateData ELSE NoUpdate,
                      earlierKind |-> IF Overlaps(p, id) THEN last.result.kind ELSE "none",
                      suspended |-> {q \in Procs \ {p} :
                                        req[q].op = "update" /\ req[q].id = id},
                      result |->
                          IF ~BindsToInteger(id) THEN ErrorResult
                          ELSE IF found THEN JobResult(after) ELSE NullResult]
    /\ pc' = [pc EXCEPT ![p] = "idle"]
    /\ req' = [req EXCEPT ![p] = NoReq]
    /\ UNCHANGED <<client, id_seq, files, dirs, now, createdBy, budget>>

----------------------------------------------------------------------------
\* uploadVideo: path generation, then mkdir, writeFile and INSERT, each awaited.

\* `/uploads/videos/${timestamp}_${randomId}_${input.filename}`
FilePath(timestamp, randomId, filename) ==
    "/uploads/videos/" \o ToString(timestamp) \o "_" \o randomId \o "_" \o filename

FullPath(filePath) == "./storage" \o filePath

\* The filenames of all the upload menus, as the names between their '/'.
FilenameSegments ==
    {<<"same-name.mp4">>, <<"clip.mp4">>, <<"clip.mov">>, <<"sub">>,
     <<"sub", "clip.mp4">>, <<"a", "..", "..", "x.mp4">>}

\* The names joined by '/'.
RECURSIVE Join(_)
Join(segs) ==
    IF Len(segs) = 1 THEN Head(segs) ELSE Head(segs) \o "/" \o Join(Tail(segs))

\* The segment sequences of the paths the handler can build: the uploads
\* directory, and below it a generated name for each filename.
PathCandidates ==
    {<<".", "storage", "uploads", "videos">>}
        \cup {<<".", "storage", "uploads", "videos",
                ToString(t) \o "_" \o r \o "_" \o Head(fs)>> \o Tail(fs) :
                 t \in 0..(MaxNow \div TicksPerMs), r \in RandomIds,
                 fs \in FilenameSegments}

\* path split at its '/'.
Split(path) == CHOOSE segs \in PathCandidates : Join(segs) = path

\* The directory the server process runs in, from the root of the file
\* system: relative paths start here.
WorkingDirectory == <<"app", "server">>

\* What a path leads to when a name on its way is no directory.
NoEntry == <<"">>

\* d is a directory when ds are the directories made so far: the working
\* directory and what lies above it are there from the start, and nothing
\* else the paths of the uploads can lead to (the tests remove ./storage).
IsDirectoryIn(ds, d) ==
    \/ d \in ds
    \/ /\ Len(d) <= Len(WorkingDirectory)
       /\ d = SubSeq(WorkingDirectory, 1, Len(d))

\* The entry name leads to from the directory at: an empty name and '.'
\* stay, '..' goes to the parent (the root is its own parent), any other
\* name goes down.
Step(at, name) ==
    IF name \in {"", "."} THEN at
    ELSE IF name = ".."
         THEN IF at = <<>> THEN at ELSE SubSeq(at, 1, Len(at) - 1)
    ELSE Append(at, name)

\* The entry the file system reaches for the segments from the directory at:
\* every name but the last has to lead to a directory.
RECURSIVE Walk(_, _, _)
Walk(ds, at, segs) ==
    IF segs = <<>> THEN at
    ELSE LET next == Step(at, Head(segs))
         IN IF Tail(segs) = <<>> THEN next
            ELSE IF IsDirectoryIn(ds, next) THEN Walk(ds, next, Tail(segs))
            ELSE NoEntry

\* Where a path leads from the working directory.
Resolve(path) == Walk(dirs, WorkingDirectory, Split(path))

uploadVideoCall(p, input, randomId) ==
    /\ FreeSlot(p)
    /\ uploadVideoInputSchema(input)
    /\ Accept
    /\ pc' = [pc EXCEPT ![p] = "upload_mkdir"]
    /\ req' = [req EXCEPT ![p] =
                  [op |-> "upload", input |-> input,
                   filePath |-> FilePath(DateNow, randomId, input.filename),
                   written |-> 0]]
    /\ UNCHANGED <<client, translation_jobs, id_seq, files, dirs, now, last, createdBy>>

\* The directories mkdir(dirname(path), { recursive: true }) makes sure of,
\* from the top down: where each part of dirname(path) leads when ds are the
\* directories made so far.
MkdirTargets(ds, path) ==
    LET full == Split(path)
    IN [k \in 1..(Len(full) - 1) |-> Walk(ds, WorkingDirectory, SubSeq(full, 1, k))]

IsDirectory(d) == IsDirectoryIn(dirs, d)

\* The places in targets where no directory is when ds are the directories.
MissingDirs(ds, targets) ==
    {k \in 1..Len(targets) : ~IsDirectoryIn(ds, targets[k])}

\* catch (error) { console.error(...); throw error; } of uploadVideo: the
\* call ends with the error of the named stage.
uploadVideoCatch(p, stage) ==
    /\ last' = [op |-> "upload_failed", proc |-> p, stage |-> stage,
                input |-> req[p].input, filePath |-> req[p].filePath,
                result |-> ErrorResult]
    /\ pc' = [pc EXCEPT ![p] = "idle"]
    /\ req' = [req EXCEPT ![p] = NoReq]

\* await mkdir(dirname(fullPath), { recursive: true }): each missing
\* directory is made by a call of its own, the topmost first; the await
\* resolves once the last one is there, and rejects when a regular file lies
\* where a directory is needed.
uploadVideoMkdir(p) ==
    /\ pc[p] = "upload_mkdir"
    /\ LET path == FullPath(req[p].filePath)
           targets == MkdirTargets(dirs, path)
           missing == MissingDirs(dirs, targets)
           first == CHOOSE k \in missing : \A j \in missing : k <= j
           made == dirs \cup {targets[first]}
       IN IF missing = {}
          THEN /\ dirs' = dirs
               /\ pc' = [pc EXCEPT ![p] = "upload_write"]
               /\ UNCHANGED <<req, last>>
          ELSE IF targets[first] = NoEntry \/ targets[first] \in DOMAIN files
          THEN /\ dirs' = dirs
               /\ uploadVideoCatch(p, "mkdir")
          ELSE /\ dirs' = made
               /\ pc' = [pc EXCEPT ![p] =
                            IF MissingDirs(made, MkdirTargets(made, path)) = {}
                            THEN "upload_write" ELSE "upload_mkdir"]
               /\ UNCHANGED <<req, last>>
    /\ UNCHANGED <<client, translation_jobs, id_seq, files, now, createdBy, budget>>

\* The storage with bytes as the content of the file path leads to.
WriteFile(path, bytes) ==
    LET file == Resolve(path)
    IN [f \in DOMAIN files \cup {file} |-> IF f = file THEN bytes ELSE files[f]]

\* existsSync(path): a file or a directory is where path leads.
ExistsSync(path) ==
    LET entry == Resolve(path)
    IN entry \in DOMAIN files \/ (entry # NoEntry /\ IsDirectory(entry))

\* What readFile(path) rejects with, in the place of the bytes.
ReadFileRejects == <<-1>>

\* readFile(path): the bytes of the file path leads to.
ReadFile(path) ==
    LET entry == Resolve(path)
    IN IF entry \in DOMAIN files THEN files[entry] ELSE ReadFileRejects

\* The buffer the request in slot p writes, and where.
FileBuffer(p) == Base64Decode(req[p].input.file_data)
WritePath(p) == FullPath(req[p].filePath)

\* content with byte written at position at, a gap before it filled with 0.
PutAt(content, at, byte) ==
    [k \in 1..(IF at > Len(content) THEN at ELSE Len(content)) |->
        IF k = at THEN byte
        ELSE IF k <= Len(content) THEN content[k] ELSE 0]

\* await writeFile(fullPath, Buffer.from(input.file_data, 'base64')), first
\* part: the file is opened, created if missing and emptied if present; the
\* open rejects when path leads to a directory or through a missing one.
uploadVideoWriteOpen(p) ==
    /\ pc[p] = "upload_write"
    /\ LET entry == Resolve(WritePath(p))
       IN IF entry = NoEntry \/ IsDirectory(entry)
          THEN /\ files' = files
               /\ uploadVideoCatch(p, "write")
          ELSE /\ files' = WriteFile(WritePath(p), <<>>)
               /\ pc' = [pc EXCEPT ![p] =
                            IF FileBuffer(p) = <<>> THEN "upload_insert"
                            ELSE "upload_writing"]
               /\ UNCHANGED <<req, last>>
    /\ UNCHANGED <<client, translation_jobs, id_seq, dirs, now, createdBy, budget>>

\* writeFile writes the next piece of the buffer at its own position in the
\* open file, and resolves once the last piece is written.
uploadVideoWriteChunk(p) ==
    /\ pc[p] = "upload_writing"
    /\ LET at == req[p].written + 1
       IN /\ files' = WriteFile(WritePath(p),
                                PutAt(ReadFile(WritePath(p)), at, FileBuffer(p)[at]))
          /\ req' = [req EXCEPT ![p].written = at]
          /\ pc' = [pc EXCEPT ![p] =
                       IF at = Len(FileBuffer(p)) THEN "upload_insert"
                       ELSE "upload_writing"]
    /\ UNCHANGED <<client, translation_jobs, id_seq, dirs, now, last, createdBy, budget>>

UploadValues(input, filePath) ==
    [original_filename |-> input.filename,
     original_file_path |-> filePath,
     target_language |-> input.target_language,
     status |-> "pending"]

\* The upload that completed just before, when it did so while request p was
\* suspended in its own upload.
UploadOverlaps(p) ==
    /\ last.op = "upload"
    /\ p \in last.suspended

\* await db.insert(...).values(...).returning()
uploadVideoInsert(p) ==
    /\ pc[p] = "upload_insert"
    /\ LET row == InsertRow(UploadValues(req[p].input, req[p].filePath), id_seq, now)
       IN /\ translation_jobs' = Append(translation_jobs, row)
          /\ id_seq' = id_seq + 1
          /\ createdBy' = Created(row.id, "upload")
          /\ last' = [op |-> "upload", proc |-> p, input |-> req[p].input,
                      filePath |-> req[p].filePath,
                      after |-> row,
                      overlapped |-> UploadOverlaps(p),
                      earlier |-> IF UploadOverlaps(p) THEN last.after ELSE NoRow,
                      suspended |-> {q \in Procs \ {p} : req[q].op = "upload"},
                      result |-> JobResult(row)]
    /\ pc' = [pc EXCEPT ![p] = "idle"]
    /\ req' = [req EXCEPT ![p] = NoReq]
    /\ UNCHANGED <<client, files, dirs, now, budget>>

----------------------------------------------------------------------------
\* The gateway under concurrent callers.

Next ==
    \/ Tick
    \/ \E input \in CreateInputs : createTranslationJob(input)
    \/ \E id \in IdInputs : getTranslationJob(id)
    \/ getTranslationJobs
    \/ \E p \in Procs, c \in UpdateCalls : updateTranslationJobCall(p, c[1], c[2])
    \/ \E p \in Procs : updateTranslationJobCommit(p)
    \/ \E p \in Procs, input \in UploadInputs, randomId \in RandomIds :
          uploadVideoCall(p, input, randomId)
    \/ \E p \in Procs : uploadVideoMkdir(p)
    \/ \E p \in Procs : uploadVideoWriteOpen(p)
    \/ \E p \in Procs : uploadVideoWriteChunk(p)
    \/ \E p \in Procs : uploadVideoInsert(p)

Spec == Init /\ [][Next]_vars

----------------------------------------------------------------------------
\* createTranslationJob over the inputs of its schema: calls on the empty
\* table, with every supported language and with inputs the schema refuses.

\* How many calls this specification follows.
MaxCreateCalls == 2

SchemaCreateInputs ==
    [original_filename : {"", "clip.mp4", "test_video.mp4"},
     original_file_path : {"", "/uploads/test_video.mp4"},
     target_language : supportedLanguagesSchema \cup {"xx"}]

InitCreate ==
    /\ translation_jobs = <<>>
    /\ id_seq = 1
    /\ files = <<>>
    /\ dirs = {}
    /\ now = 0
    /\ pc = [p \in Procs |-> "idle"]
    /\ req = [p \in Procs |-> NoReq]
    /\ last = NoCall
    /\ createdBy = <<>>
    /\ budget = MaxCreateCalls
    /\ client = NoClient

NextCreate ==
    \/ Tick
    \/ \E input \in SchemaCreateInputs : createTranslationJob(input)
    \/ getTranslationJobs

SpecCreate == InitCreate /\ [][NextCreate]_vars

----------------------------------------------------------------------------
\* updateTranslationJob over the inputs of its schema: calls on a table
\* that holds one job, either as createTranslationJob left it or with every
\* optional column set by an earlier update. The calls run one after the
\* other; Spec has the concurrent ones.

\* How many calls this specification follows.
MaxUpdateCalls == 2

\* The input carrying exactly the keys in F: a language, a status, and v for
\* each of the nullable strings.
SubsetUpdate(F, v) ==
    [f \in UpdateFields |->
        IF f \notin F THEN Absent
        ELSE IF f = "detected_language" THEN "en"
        ELSE IF f = "status" THEN "failed"
        ELSE v]

\* The optional string columns.
NullableFields ==
    {"translated_file_path", "transcript", "translated_transcript", "error_message"}

\* Every subset of the keys with its strings set, and an explicit null for
\* each optional string alone, for all four, and for all four beside a status.
SchemaUpdateInputs ==
    ({SubsetUpdate(F, "s") : F \in SUBSET UpdateFields}
       \cup {SubsetUpdate({f}, Null) : f \in NullableFields}
       \cup {SubsetUpdate(NullableFields, Null),
             SubsetUpdate(NullableFields \cup {"status"}, Null)})
        \cap updateTranslationJobInputSchema({"en"}, {"failed"}, {"s"})

FreshRow ==
    InsertRow(CreateValues(CHOOSE input \in CreateInputs : TRUE), 1, 0)

AllSetRow ==
    UpdateRow(FreshRow,
              [detected_language |-> "en", status |-> "completed",
               translated_file_path |-> "/out/clip_es.mp4", transcript |-> "Hi",
               translated_transcript |-> "Hola", error_message |-> "m",
               updated_at |-> 0])

InitUpdate ==
    /\ translation_jobs \in {<<FreshRow>>, <<AllSetRow>>}
    /\ id_seq = 2
    /\ files = <<>>
    /\ dirs = {}
    /\ now = 0
    /\ pc = [p \in Procs |-> "idle"]
    /\ req = [p \in Procs |-> NoReq]
    /\ last = NoCall
    /\ createdBy = [i \in {1} |-> "create"]
    /\ budget = MaxUpdateCalls
    /\ client = NoClient

NextUpdate ==
    \/ \E updateData \in SchemaUpdateInputs :
          updateTranslationJobCall(1, Num(1), updateData)
    \/ updateTranslationJobCommit(1)
    \/ getTranslationJob(Num(1))

SpecUpdate == InitUpdate /\ [][NextUpdate]_vars

----------------------------------------------------------------------------
\* getSupportedLanguages and healthcheck: neither reads nor writes the table.

\* The display names, in the order the object literal lists its keys; a name
\* is the sequence of its characters.
languageNames ==
    <<[code |-> "en", name |-> <<"E", "n", "g", "l", "i", "s", "h">>],
      [code |-> "es", name |-> <<"S", "p", "a", "n", "i", "s", "h">>],
      [code |-> "fr", name |-> <<"F", "r", "e", "n", "c", "h">>],
      [code |-> "de", name |-> <<"G", "e", "r", "m", "a", "n">>],
      [code |-> "it", name |-> <<"I", "t", "a", "l", "i", "a", "n">>],
      [code |-> "pt", name |-> <<"P", "o", "r", "t", "u", "g", "u", "e", "s", "e">>],
      [code |-> "ru", name |-> <<"R", "u", "s", "s", "i", "a", "n">>],
      [code |-> "ja", name |-> <<"J", "a", "p", "a", "n", "e", "s", "e">>],
      [code |-> "ko", name |-> <<"K", "o", "r", "e", "a", "n">>],
      [code |-> "zh", name |-> <<"C", "h", "i", "n", "e", "s", "e">>],
      [code |-> "ar", name |-> <<"A", "r", "a", "b", "i", "c">>],
      [code |-> "hi", name |-> <<"H", "i", "n", "d", "i">>]>>

LowerCase ==
    <<"a", "b", "c", "d", "e", "f", "g", "h", "i", "j", "k", "l", "m",
      "n", "o", "p", "q", "r", "s", "t", "u", "v", "w", "x", "y", "z">>

UpperCase ==
    <<"A", "B", "C", "D", "E", "F", "G", "H", "I", "J", "K", "L", "M",
      "N", "O", "P", "Q", "R", "S", "T", "U", "V", "W", "X", "Y", "Z">>

\* The place of a letter in the alphabet, either case.
LetterRank(ch) ==
    CHOOSE i \in 1..Len(LowerCase) : LowerCase[i] = ch \/ UpperCase[i] = ch

\* a.localeCompare(b) for words of letters: the first place where the
\* letters differ decides, a word sorts after its proper prefixes, and of
\* two words with the same letters the one with the earlier lower-case
\* letter comes first.  Negative, zero or positive.
RECURSIVE CompareLetters(_, _)
CompareLetters(a, b) ==
    IF a = <<>> /\ b = <<>> THEN 0
    ELSE IF a = <<>> THEN -1
    ELSE IF b = <<>> THEN 1
    ELSE IF LetterRank(Head(a)) # LetterRank(Head(b))
         THEN LetterRank(Head(a)) - LetterRank(Head(b))
    ELSE CompareLetters(Tail(a), Tail(b))

RECURSIVE CompareCase(_, _)
CompareCase(a, b) ==
    IF a = <<>> \/ b = <<>> THEN 0
    ELSE IF Head(a) = Head(b) THEN CompareCase(Tail(a), Tail(b))
    ELSE IF \E i \in 1..Len(LowerCase) : LowerCase[i] = Head(a) THEN -1
    ELSE 1

LocaleCompare(a, b) ==
    IF CompareLetters(a, b) # 0 THEN CompareLetters(a, b) ELSE CompareCase(a, b)

\* sorted with option put in its place: after every entry that does not
\* sort after it.
RECURSIVE InsertByName(_, _)
InsertByName(sorted, option) ==
    IF sorted = <<>> THEN <<option>>
    ELSE IF LocaleCompare(Head(sorted).name, option.name) <= 0
         THEN <<Head(sorted)>> \o InsertByName(Tail(sorted), option)
    ELSE <<option>> \o sorted

\* SortByName as it would be without the sort.
SortByNameKeepingOrder(languages) == languages

\* languages.sort((a, b) => a.name.localeCompare(b.name)): a stable sort.
RECURSIVE SortByName(_)
SortByName(languages) ==
    IF languages = <<>> THEN <<>>
    ELSE InsertByName(SortByName(SubSeq(languages, 1, Len(languages) - 1)),
                      languages[Len(languages)])

LanguagesResult(languages) == [kind |-> "languages", languages |-> languages]

getSupportedLanguages ==
    /\ Accept
    /\ last' = [op |-> "languages", result |-> LanguagesResult(SortByName(languageNames))]
    /\ UNCHANGED <<client, translation_jobs, id_seq, files, dirs, now, pc, req, createdBy>>

\* healthcheck: { status: 'ok', timestamp: new Date().toISOString() }
healthcheck ==
    /\ Accept
    /\ last' = [op |-> "healthcheck",
                result |-> [kind |-> "health", status |-> "ok", timestamp |-> NewDate]]
    /\ UNCHANGED <<client, translation_jobs, id_seq, files, dirs, now, pc, req, createdBy>>

----------------------------------------------------------------------------
\* The router in front of the handlers: every procedure parses its input with
\* its schema before the handler runs, and a parse failure is answered with a
\* validation error.  All seven procedures, the calls running one after the
\* other, on a table that is empty or holds one job in any of the four
\* statuses.

\* How many calls this specification follows.
MaxGatewayCalls == 2

ValidationError == [kind |-> "validation_error"]

\* Keys a caller may send that updateTranslationJobInputSchema does not name.
ExtraKeys == {"original_filename", "target_language"}

\* z.object() drops the keys it does not name from the parsed value.
StripUnknownKeys(raw) == [f \in UpdateFields |-> raw[f]]

\* The strings the callers of this specification send.
GatewayStrings == {"Hi"}

\* updateTranslationJobInputSchema.parse succeeds on the raw input.
ParsesAsUpdateInput(raw) ==
    StripUnknownKeys(raw) \in
        updateTranslationJobInputSchema(supportedLanguagesSchema,
                                        translationStatusSchema, GatewayStrings)

\* A raw update input carrying nothing but the id.
RawNoUpdate == [f \in UpdateFields \cup ExtraKeys |-> Absent]

\* Raw update inputs: each status, a status outside the enum, a language, a
\* code outside the enum, a null language, and an id-only input with keys the
\* schema does not name.
GatewayUpdateInputs ==
    {[RawNoUpdate EXCEPT !.status = t] : t \in translationStatusSchema \cup {"archived"}}
        \cup {[RawNoUpdate EXCEPT !.detected_language = "fr"],
              [RawNoUpdate EXCEPT !.detected_language = "xx"],
              [RawNoUpdate EXCEPT !.detected_language = Null],
              [RawNoUpdate EXCEPT !.original_filename = "renamed.mp4",
                                  !.target_language = "fr"]}

GatewayCreateInputs ==
    [original_filename : {"", "clip.mp4"},
     original_file_path : {"", "/uploads/clip.mp4"},
     target_language : {"es", "xx"}]

GatewayUploadInputs ==
    [filename : {"", "clip.mp4"},
     file_data : {<<"Y", "Q", "=", "=">>},
     target_language : {"en", "xx"}]

\* The procedure's input parser fails: the caller gets a validation error
\* and the handler is not called.
RejectInput(procedure, input) ==
    /\ Accept
    /\ last' = [op |-> "rejected", procedure |-> procedure, input |-> input,
                result |-> ValidationError]
    /\ UNCHANGED <<client, translation_jobs, id_seq, files, dirs, now, pc, req, createdBy>>

createTranslationJobRejected(input) ==
    /\ ~createTranslationJobInputSchema(input)
    /\ RejectInput("createTranslationJob", input)

uploadVideoRejected(input) ==
    /\ ~uploadVideoInputSchema(input)
    /\ RejectInput("uploadVideo", input)

updateTranslationJobRejected(id, raw) ==
    /\ ~ParsesAsUpdateInput(raw)
    /\ RejectInput("updateTranslationJob", [id |-> id, raw |-> raw])

\* The updateTranslationJob procedure on an input that parses.
updateTranslationJobParsed(p, id, raw) ==
    /\ ParsesAsUpdateInput(raw)
    /\ updateTranslationJobCall(p, id, StripUnknownKeys(raw))

\* A stored job in status s whose language has been detected.
JobWithStatus(s) ==
    UpdateRow(FreshRow,
              [detected_language |-> "en", status |-> s, updated_at |-> 0])

InitGateway ==
    /\ translation_jobs \in
          {<<>>} \cup {<<JobWithStatus(s)>> : s \in translationStatusSchema}
    /\ id_seq = Len(translation_jobs) + 1
    /\ files = <<>>
    /\ dirs = {}
    /\ now = 0
    /\ pc = [p \in Procs |-> "idle"]
    /\ req = [p \in Procs |-> NoReq]
    /\ last = NoCall
    /\ createdBy = [i \in 1..Len(translation_jobs) |-> "create"]
    /\ budget = MaxGatewayCalls
    /\ client = NoClient

NextGateway ==
    \/ Tick
    \/ \E input \in GatewayCreateInputs : createTranslationJob(input)
    \/ \E input \in GatewayCreateInputs : createTranslationJobRejected(input)
    \/ \E input \in GatewayUploadInputs, randomId \in RandomIds :
          uploadVideoCall(1, input, randomId)
    \/ \E input \in GatewayUploadInputs : uploadVideoRejected(input)
    \/ uploadVideoMkdir(1)
    \/ uploadVideoWriteOpen(1)
    \/ uploadVideoWriteChunk(1)
    \/ uploadVideoInsert(1)
    \/ \E raw \in GatewayUpdateInputs : updateTranslationJobParsed(1, Num(1), raw)
    \/ \E raw \in GatewayUpdateInputs : updateTranslationJobRejected(Num(1), raw)
    \/ updateTranslationJobCommit(1)
    \/ getTranslationJob(Num(1))
    \/ getTranslationJobs
    \/ getSupportedLanguages
    \/ healthcheck

SpecGateway == InitGateway /\ [][NextGateway]_vars

----------------------------------------------------------------------------
\* uploadVideo over the inputs of its schema: the write can fail before the
\* file is opened or between the pieces, and the handler rethrows.  The calls
\* run one after the other.

\* How many calls this specification follows.
MaxUploadCalls == 2

\* Payloads: "a" and "ab" encoded, a string that is no base64 encoding, and
\* one in the URL-safe alphabet.
UploadPayloads ==
    {<<"Y", "Q", "=", "=">>, <<"Y", "W", "I", "=">>, <<"Y", "*", "Q">>,
     <<"_", "w", "=", "=">>}

SchemaUploadInputs ==
    [filename : {Join(fs) : fs \in FilenameSegments
                                   \ {<<"same-name.mp4">>, <<"clip.mov">>}},
     file_data : UploadPayloads,
     target_language : {"en"}]

\* writeFile rejects (disk full, permission denied): the handler logs and
\* rethrows, leaving the file as it is.
uploadVideoWriteFails(p) ==
    /\ pc[p] \in {"upload_write", "upload_writing"}
    /\ last' = [op |-> "upload_failed", proc |-> p, stage |-> "write",
                input |-> req[p].input, filePath |-> req[p].filePath,
                result |-> ErrorResult]
    /\ pc' = [pc EXCEPT ![p] = "idle"]
    /\ req' = [req EXCEPT ![p] = NoReq]
    /\ UNCHANGED <<client, translation_jobs, id_seq, files, dirs, now, createdBy, budget>>

InitUpload ==
    /\ translation_jobs = <<>>
    /\ id_seq = 1
    /\ files = <<>>
    /\ dirs = {}
    /\ now = 0
    /\ pc = [p \in Procs |-> "idle"]
    /\ req = [p \in Procs |-> NoReq]
    /\ last = NoCall
    /\ createdBy = <<>>
    /\ budget = MaxUploadCalls
    /\ client = NoClient

NextUpload ==
    \/ \E input \in SchemaUploadInputs, randomId \in RandomIds :
          uploadVideoCall(1, input, randomId)
    \/ uploadVideoMkdir(1)
    \/ uploadVideoWriteOpen(1)
    \/ uploadVideoWriteChunk(1)
    \/ uploadVideoWriteFails(1)
    \/ uploadVideoInsert(1)

SpecUpload == InitUpload /\ [][NextUpload]_vars

----------------------------------------------------------------------------
\* Creations by both handlers, two of them at a time, where an INSERT can
\* fail: the handler logs and rethrows.  The sequence behind the serial id is
\* not rolled back, so a failed INSERT may or may not have used up a value.

\* How many calls this specification follows.
MaxIdCalls == 3

\* The next value of the id sequence once an INSERT has failed.
SequenceAfterFailedInsert == {id_seq, id_seq + 1}

createTranslationJobInsertFails(input) ==
    /\ createTranslationJobInputSchema(input)
    /\ Accept
    /\ id_seq' \in SequenceAfterFailedInsert
    /\ last' = [op |-> "create_failed", input |-> input, result |-> ErrorResult]
    /\ UNCHANGED <<client, translation_jobs, files, dirs, now, pc, req, createdBy>>

uploadVideoInsertFails(p) ==
    /\ pc[p] = "upload_insert"
    /\ id_seq' \in SequenceAfterFailedInsert
    /\ last' = [op |-> "upload_failed", proc |-> p, stage |-> "insert",
                input |-> req[p].input, filePath |-> req[p].filePath,
                result |-> ErrorResult]
    /\ pc' = [pc EXCEPT ![p] = "idle"]
    /\ req' = [req EXCEPT ![p] = NoReq]
    /\ UNCHANGED <<client, translation_jobs, files, dirs, now, createdBy, budget>>

InitIds ==
    /\ translation_jobs = <<>>
    /\ id_seq = 1
    /\ files = <<>>
    /\ dirs = {}
    /\ now = 0
    /\ pc = [p \in Procs |-> "idle"]
    /\ req = [p \in Procs |-> NoReq]
    /\ last = NoCall
    /\ createdBy = <<>>
    /\ budget = MaxIdCalls
    /\ client = NoClient

NextIds ==
    \/ Tick
    \/ \E input \in CreateInputs : createTranslationJob(input)
    \/ \E input \in CreateInputs : createTranslationJobInsertFails(input)
    \/ \E p \in Procs, input \in UploadInputs, randomId \in RandomIds :
          uploadVideoCall(p, input, randomId)
    \/ \E p \in Procs : uploadVideoMkdir(p)
    \/ \E p \in Procs : uploadVideoWriteOpen(p)
    \/ \E p \in Procs : uploadVideoWriteChunk(p)
    \/ \E p \in Procs : uploadVideoInsert(p)
    \/ \E p \in Procs : uploadVideoInsertFails(p)

SpecIds == InitIds /\ [][NextIds]_vars

----------------------------------------------------------------------------
\* Every handler where its storage can fail: the SELECT, the INSERT, the
\* UPDATE, mkdir and writeFile reject, the handler's catch logs and rethrows.
\* The calls run one after the other.

\* How many calls this specification follows.
MaxFaultCalls == 2

\* The upload this specification sends: the payload "ab".
FaultUploadInputs ==
    {[filename |-> "clip.mp4", file_data |-> <<"Y", "W", "I", "=">>,
      target_language |-> "en"]}

\* The update this specification sends.
FaultUpdateCalls == {<<Num(1), [NoUpdate EXCEPT !.status = "processing"]>>}

\* The SELECT of getTranslationJob rejects.
getTranslationJobFails(id) ==
    /\ Accept
    /\ last' = [op |-> "get_failed", id |-> id, result |-> ErrorResult]
    /\ UNCHANGED <<client, translation_jobs, id_seq, files, dirs, now, pc, req, createdBy>>

\* The SELECT of getTranslationJobs rejects.
getTranslationJobsFails ==
    /\ Accept
    /\ last' = [op |-> "list_failed", result |-> ErrorResult]
    /\ UNCHANGED <<client, translation_jobs, id_seq, files, dirs, now, pc, req, createdBy>>

\* The UPDATE of updateTranslationJob rejects.
updateTranslationJobFails(p) ==
    /\ pc[p] = "update"
    /\ last' = [op |-> "update_failed", proc |-> p, id |-> req[p].id,
                updateData |-> req[p].updateData, result |-> ErrorResult]
    /\ pc' = [pc EXCEPT ![p] = "idle"]
    /\ req' = [req EXCEPT ![p] = NoReq]
    /\ UNCHANGED <<client, translation_jobs, id_seq, files, dirs, now, createdBy, budget>>

\* mkdir rejects: the directory is not there, nothing is written.
uploadVideoMkdirFails(p) ==
    /\ pc[p] = "upload_mkdir"
    /\ last' = [op |-> "upload_failed", proc |-> p, stage |-> "mkdir",
                input |-> req[p].input, filePath |-> req[p].filePath,
                result |-> ErrorResult]
    /\ pc' = [pc EXCEPT ![p] = "idle"]
    /\ req' = [req EXCEPT ![p] = NoReq]
    /\ UNCHANGED <<client, translation_jobs, id_seq, files, dirs, now, createdBy, budget>>

InitFaults ==
    /\ translation_jobs = <<>>
    /\ id_seq = 1
    /\ files = <<>>
    /\ dirs = {}
    /\ now = 0
    /\ pc = [p \in Procs |-> "idle"]
    /\ req = [p \in Procs |-> NoReq]
    /\ last = NoCall
    /\ createdBy = <<>>
    /\ budget = MaxFaultCalls
    /\ client = NoClient

NextFaults ==
    \/ \E input \in CreateInputs : createTranslationJob(input)
    \/ \E input \in CreateInputs : createTranslationJobInsertFails(input)
    \/ getTranslationJob(Num(1))
    \/ getTranslationJobFails(Num(1))
    \/ getTranslationJobs
    \/ getTranslationJobsFails
    \/ \E c \in FaultUpdateCalls : updateTranslationJobCall(1, c[1], c[2])
    \/ updateTranslationJobCommit(1)
    \/ updateTranslationJobFails(1)
    \/ \E input \in FaultUploadInputs, randomId \in RandomIds :
          uploadVideoCall(1, input, randomId)
    \/ uploadVideoMkdir(1)
    \/ uploadVideoMkdirFails(1)
    \/ uploadVideoWriteOpen(1)
    \/ uploadVideoWriteChunk(1)
    \/ uploadVideoWriteFails(1)
    \/ uploadVideoInsert(1)
    \/ uploadVideoInsertFails(1)

SpecFaults == InitFaults /\ [][NextFaults]_vars

----------------------------------------------------------------------------
\* Uploads of two different files under the same name, two of them at a time.

\* How many calls this specification follows.
MaxFileCalls == 2

\* The payloads "a" and "ab" under one filename.
FileUploadInputs ==
    {[filename |-> "same-name.mp4", file_data |-> data, target_language |-> "en"] :
        data \in {<<"Y", "Q", "=", "=">>, <<"Y", "W", "I", "=">>}}

InitFiles ==
    /\ translation_jobs = <<>>
    /\ id_seq = 1
    /\ files = <<>>
    /\ dirs = {}
    /\ now = 0
    /\ pc = [p \in Procs |-> "idle"]
    /\ req = [p \in Procs |-> NoReq]
    /\ last = NoCall
    /\ createdBy = <<>>
    /\ budget = MaxFileCalls
    /\ client = NoClient

NextFiles ==
    \/ Tick
    \/ \E p \in Procs, input \in FileUploadInputs, randomId \in RandomIds :
          uploadVideoCall(p, input, randomId)
    \/ \E p \in Procs : uploadVideoMkdir(p)
    \/ \E p \in Procs : uploadVideoWriteOpen(p)
    \/ \E p \in Procs : uploadVideoWriteChunk(p)
    \/ \E p \in Procs : uploadVideoInsert(p)

SpecFiles == InitFiles /\ [][NextFiles]_vars

----------------------------------------------------------------------------
\* The page: App keeps jobs, isUploading and uploadError, VideoUpload keeps
\* the chosen file and language.  loadJobs asks getTranslationJobs and
\* replaces the list; handleVideoUpload reads the file as base64, asks
\* uploadVideo and puts the response in front of the list.  Requests and
\* responses travel on their own: the responses of two requests can arrive
\* in either order.

\* How many uploads the page sends, and how many times loadJobs runs after
\* the one at mount (the interval, the timer of an upload, the Refresh button).
MaxClientUploads == 2
MaxLoads == 2

\* The files the user picks, the type as its characters: two videos, a text
\* file, and a video one byte above the limit (its content is never read:
\* bytes holds its first byte only).
ClientFiles ==
    {[name |-> "clip.mp4", type |-> <<"v", "i", "d", "e", "o", "/", "m", "p", "4">>,
      size |-> 1, bytes |-> <<97>>],
     [name |-> "clip.mov",
      type |-> <<"v", "i", "d", "e", "o", "/", "q", "u", "i", "c", "k", "t", "i", "m", "e">>,
      size |-> 1, bytes |-> <<98>>],
     [name |-> "notes.txt",
      type |-> <<"t", "e", "x", "t", "/", "p", "l", "a", "i", "n">>,
      size |-> 1, bytes |-> <<97>>],
     [name |-> "big.mp4", type |-> <<"v", "i", "d", "e", "o", "/", "m", "p", "4">>,
      size |-> 100 * 1024 * 1024 + 1, bytes |-> <<97>>]}

\* s.startsWith(prefix)
StartsWith(str, prefix) ==
    /\ Len(str) >= Len(prefix)
    /\ SubSeq(str, 1, Len(prefix)) = prefix

\* The largest file the form takes.
MaxFileSize == 100 * 1024 * 1024

\* The languages the user picks.
ClientLanguages == {"es"}

\* reader.readAsDataURL(file), then reader.result.split(',')[1]: the bytes in
\* base64, three bytes to four characters, the tail padded with '='.
Base64Encode(bytes) ==
    LET n == Len(bytes)
        At(i) == IF i <= n THEN bytes[i] ELSE 0
        Triple(g) == At(3 * g + 1) * 65536 + At(3 * g + 2) * 256 + At(3 * g + 3)
        Shift(j) == CASE j = 0 -> 262144 [] j = 1 -> 4096 [] j = 2 -> 64 [] OTHER -> 1
        Char(g, j) ==
            IF (j = 2 /\ 3 * g + 2 > n) \/ (j = 3 /\ 3 * g + 3 > n) THEN "="
            ELSE B64Chars[((Triple(g) \div Shift(j)) % 64) + 1]
    IN [k \in 1..(4 * ((n + 2) \div 3)) |-> Char((k - 1) \div 4, (k - 1) % 4)]

\* VideoUpload.handleFileSelect, from the file input or a drop: a file that
\* is no video, or one above the limit, is refused with an alert.
handleFileSelect(file) ==
    /\ client' = IF ~StartsWith(file.type, <<"v", "i", "d", "e", "o", "/">>) THEN client
                 ELSE IF file.size > MaxFileSize THEN client
                 ELSE [client EXCEPT !.selectedFile = file]
    /\ UNCHANGED <<translation_jobs, id_seq, files, dirs, now, pc, req, last,
                   createdBy, budget>>

\* The button "Choose Different File", shown once a file is chosen and
\* disabled during an upload.
chooseDifferentFile ==
    /\ client.selectedFile # NoFile
    /\ ~client.isUploading
    /\ client' = [client EXCEPT !.selectedFile = NoFile]
    /\ UNCHANGED <<translation_jobs, id_seq, files, dirs, now, pc, req, last,
                   createdBy, budget>>

\* The Select's onValueChange; the Select is disabled during an upload.
setTargetLanguage(value) ==
    /\ ~client.isUploading
    /\ client' = [client EXCEPT !.targetLanguage = value]
    /\ UNCHANGED <<translation_jobs, id_seq, files, dirs, now, pc, req, last,
                   createdBy, budget>>

\* VideoUpload.handleSubmit up to its await, and handleVideoUpload up to the
\* await of the FileReader.  The submit button is disabled without a file,
\* without a language and during an upload.
handleSubmit ==
    /\ client.selectedFile # NoFile
    /\ client.targetLanguage # ""
    /\ ~client.isUploading
    /\ client' = [client EXCEPT !.isUploading = TRUE,
                                !.uploadError = Null,
                                !.upload = [state |-> "reading",
                                            file |-> client.selectedFile,
                                            targetLanguage |-> client.targetLanguage]]
    /\ UNCHANGED <<translation_jobs, id_seq, files, dirs, now, pc, req, last,
                   createdBy, budget>>

\* reader.onload: the base64 text is there and trpc.uploadVideo.mutate sends
\* the request.
readerOnload ==
    /\ client.upload.state = "reading"
    /\ budget > 0
    /\ client' = [client EXCEPT !.upload =
                     [state |-> "sent",
                      input |-> [filename |-> client.upload.file.name,
                                 file_data |-> Base64Encode(client.upload.file.bytes),
                                 target_language |-> client.upload.targetLanguage],
                      ticket |-> budget]]
    /\ UNCHANGED <<translation_jobs, id_seq, files, dirs, now, pc, req, last,
                   createdBy, budget>>

\* What handleVideoUpload's finally and the rest of handleSubmit leave once
\* the upload has settled with this error (Null when it succeeded) and these
\* jobs: isUploading false, and the form emptied.
Settled(jobs, error) ==
    [client EXCEPT !.jobs = jobs,
                   !.uploadError = error,
                   !.isUploading = FALSE,
                   !.selectedFile = NoFile,
                   !.targetLanguage = "",
                   !.upload = [state |-> "none"]]

UploadFailedMessage == "Failed to upload video. Please try again."

\* reader.onerror: the promise rejects, the catch sets uploadError.
readerOnerror ==
    /\ client.upload.state = "reading"
    /\ client' = Settled(client.jobs, UploadFailedMessage)
    /\ UNCHANGED <<translation_jobs, id_seq, files, dirs, now, pc, req, last,
                   createdBy, budget>>

\* The request of the page reaches the gateway and uploadVideo starts.
uploadVideoFromClient ==
    /\ client.upload.state = "sent"
    /\ budget = client.upload.ticket
    /\ \E randomId \in RandomIds : uploadVideoCall(1, client.upload.input, randomId)

\* The response of uploadVideo arrives: the job is put in front of the list,
\* or the catch sets uploadError.
uploadVideoSettles ==
    /\ client.upload.state = "sent"
    /\ budget < client.upload.ticket
    /\ pc[1] = "idle"
    /\ client' = IF last.result.kind = "job"
                 THEN Settled(<<last.result.job>> \o client.jobs, Null)
                 ELSE Settled(client.jobs, UploadFailedMessage)
    /\ UNCHANGED <<translation_jobs, id_seq, files, dirs, now, pc, req, last,
                   createdBy, budget>>

\* loadJobs sends its request: at the interval, at the timer an upload set,
\* or at the Refresh button.
loadJobs ==
    /\ client.loadsLeft > 0
    /\ client' = [client EXCEPT !.loadsLeft = @ - 1, !.polls = @ + 1]
    /\ UNCHANGED <<translation_jobs, id_seq, files, dirs, now, pc, req, last,
                   createdBy, budget>>

\* getTranslationJobs answers a request of the page.
getTranslationJobsForClient ==
    /\ client.polls > 0
    /\ \E rows \in OrderByCreatedAtDesc(translation_jobs) :
          client' = [client EXCEPT !.polls = @ - 1,
                                   !.responses = Append(@, ListResult(rows))]
    /\ UNCHANGED <<translation_jobs, id_seq, files, dirs, now, pc, req, last,
                   createdBy, budget>>

\* getTranslationJobs fails for a request of the page.
getTranslationJobsFailsForClient ==
    /\ client.polls > 0
    /\ client' = [client EXCEPT !.polls = @ - 1,
                                !.responses = Append(@, ErrorResult)]
    /\ UNCHANGED <<translation_jobs, id_seq, files, dirs, now, pc, req, last,
                   createdBy, budget>>

\* responses without its i-th element.
Without(responses, i) ==
    SubSeq(responses, 1, i - 1) \o SubSeq(responses, i + 1, Len(responses))

\* A response of getTranslationJobs arrives: setJobs(result), or the catch
\* logs the error.
loadJobsSettles(i) ==
    /\ i \in 1..Len(client.responses)
    /\ client' = [client EXCEPT
                     !.responses = Without(@, i),
                     !.jobs = IF client.responses[i].kind = "list"
                              THEN client.responses[i].jobs
                              ELSE @]
    /\ UNCHANGED <<translation_jobs, id_seq, files, dirs, now, pc, req, last,
                   createdBy, budget>>

\* The page once mounted: the mount effect has sent the first loadJobs.
InitClient ==
    /\ translation_jobs = <<>>
    /\ id_seq = 1
    /\ files = <<>>
    /\ dirs = {}
    /\ now = 0
    /\ pc = [p \in Procs |-> "idle"]
    /\ req = [p \in Procs |-> NoReq]
    /\ last = NoCall
    /\ createdBy = <<>>
    /\ budget = MaxClientUploads
    /\ client = [NoClient EXCEPT !.polls = 1, !.loadsLeft = MaxLoads]

NextClient ==
    \/ \E file \in ClientFiles : handleFileSelect(file)
    \/ chooseDifferentFile
    \/ \E value \in ClientLanguages : setTargetLanguage(value)
    \/ handleSubmit
    \/ readerOnload
    \/ readerOnerror
    \/ uploadVideoFromClient
    \/ uploadVideoMkdir(1)
    \/ uploadVideoWriteOpen(1)
    \/ uploadVideoWriteChunk(1)
    \/ uploadVideoInsert(1)
    \/ uploadVideoInsertFails(1)
    \/ uploadVideoSettles
    \/ loadJobs
    \/ getTranslationJobsForClient
    \/ getTranslationJobsFailsForClient
    \/ \E i \in 1..MaxLoads + 1 : loadJobsSettles(i)

SpecClient == InitClient /\ [][NextClient]_vars

----------------------------------------------------------------------------
\* Properties.

\* The stored row whose id is the integer n.
Stored(n) == RowAt(Num(n))

\* Where the row with id n sits in insertion order.
PositionOf(n) == CHOOSE i \in 1..Len(translation_jobs) : translation_jobs[i].id = n

\* The most recent call was an update that matched a row.
UpdatedARow == last.op = "update" /\ last.found

\* C1: updateTranslationJob on an existing job gives every supplied field the
\* supplied value, leaves every field not supplied as it was, and changes no
\* column besides those and updated_at; the returned job shows the same.
C1_UpdateChangesExactlySuppliedFields ==
    UpdatedARow =>
        /\ \A f \in UpdateFields :
              RowAt(last.id)[f] =
                  IF f \in Supplied(last.updateData) THEN last.updateData[f]
                  ELSE last.before[f]
        /\ \A c \in Columns \ (UpdateFields \cup {"updated_at"}) :
              RowAt(last.id)[c] = last.before[c]
        /\ last.result.kind = "job"
        /\ \A f \in UpdateFields : last.result.job[f] = RowAt(last.id)[f]

\* C1 happens: {status: failed, error_message} on the freshly created job,
\* the other optional fields still absent.
C1_Witness ==
    /\ UpdatedARow
    /\ last.before = FreshRow
    /\ Supplied(last.updateData) = {"status", "error_message"}
    /\ Stored(1).status = "failed"
    /\ Stored(1).error_message = "s"
    /\ Stored(1).transcript = Null

\* C2: for every valid input createTranslationJob succeeds, and the job it
\* returns and stores is pending, has every optional field absent, carries
\* the input's filename, path and target language, and has
\* created_at = updated_at.
C2_CreateReturnsPendingJob ==
    /\ \A input \in SchemaCreateInputs :
          (createTranslationJobInputSchema(input) /\ budget > 0)
              => ENABLED createTranslationJob(input)
    /\ last.op = "create" =>
          /\ last.result.kind = "job"
          /\ last.result.job.status = "pending"
          /\ \A f \in UpdateFields \ {"status"} : last.result.job[f] = Null
          /\ last.result.job.original_filename = last.input.original_filename
          /\ last.result.job.original_file_path = last.input.original_file_path
          /\ last.result.job.target_language = last.input.target_language
          /\ last.result.job.created_at = last.result.job.updated_at
          /\ RowsWithId(Num(last.result.job.id)) # {}
          /\ FromDriver(Stored(last.result.job.id)) = last.result.job
          /\ Stored(last.result.job.id).created_at
                = Stored(last.result.job.id).updated_at

\* C2 happens: a second job, created in the second millisecond.
C2_Witness ==
    /\ last.op = "create"
    /\ last.result.job.id = 2
    /\ last.result.job.target_language = "hi"
    /\ last.result.job.created_at = TicksPerMs

\* C3: for an id that no stored job has, getTranslationJob and
\* updateTranslationJob return null, raise no error and write nothing.
C3_MissingIdYieldsNull ==
    (last.op \in {"get", "update"} /\ RowsWithId(last.id) = {}) =>
        /\ last.result.kind = "null"
        /\ last.op = "update" => last.after = last.before

\* C4: every update of an existing job returns an updated_at strictly greater
\* than the one the job had, and an id-only update changes nothing else.
C4_UpdateAdvancesUpdatedAt ==
    (UpdatedARow /\ last.base.id # 0) =>
        /\ last.result.kind = "job"
        /\ last.result.job.updated_at > ToDate(last.base.updated_at)
        /\ last.updateData = NoUpdate =>
              \A c \in Columns \ {"updated_at"} : RowAt(last.id)[c] = last.before[c]

\* Some request sets field f of row i to a value in this step.
SetsField(i, f) ==
    \E p \in Procs :
        /\ pc[p] = "update" /\ pc'[p] = "idle"
        /\ i \in RowsWithId(req[p].id)
        /\ req[p].updateData[f] \notin {Null, Absent}

\* C5: an update carrying an optional string field as null leaves the field
\* absent in the returned job and in the store; getTranslationJob returns the
\* stored fields; and an absent field stays absent until an update sets it.
C5_NullClearsUntilSet ==
    /\ [](UpdatedARow =>
            \A f \in NullableFields :
                last.updateData[f] = Null =>
                    /\ last.result.kind = "job"
                    /\ last.result.job[f] = Null
                    /\ RowAt(last.id)[f] = Null)
    /\ []((last.op = "get" /\ RowsWithId(last.id) # {}) =>
            /\ last.result.kind = "job"
            /\ \A f \in NullableFields : last.result.job[f] = RowAt(last.id)[f])
    /\ [][\A i \in 1..Len(translation_jobs), f \in NullableFields :
            (translation_jobs[i][f] = Null /\ translation_jobs'[i][f] # Null)
                => SetsField(i, f)]_vars

\* C5 happens: a transcript that was set is cleared by an explicit null.
C5_Witness ==
    /\ UpdatedARow
    /\ last.before.transcript = "Hi"
    /\ last.updateData.transcript = Null
    /\ Stored(1).transcript = Null
    /\ Stored(1).detected_language = "en"

\* C6: two uploads of the same filename that run concurrently get distinct
\* paths and distinct records.
C6_ConcurrentUploadPathsDistinct ==
    (/\ last.op = "upload"
     /\ last.overlapped
     /\ last.earlier.original_filename = last.after.original_filename) =>
        /\ last.after.id # last.earlier.id
        /\ last.after.original_file_path # last.earlier.original_file_path

\* C7: getTranslationJobs returns the stored jobs newest first, and jobs with
\* equal created_at in insertion order; the empty table gives the empty list.
C7_ListNewestFirstTiesByInsertion ==
    last.op = "list" =>
        /\ translation_jobs = <<>> => last.result.jobs = <<>>
        /\ \A i, j \in 1..Len(last.result.jobs) :
              i < j =>
                 LET a == Stored(last.result.jobs[i].id)
                     b == Stored(last.result.jobs[j].id)
                 IN \/ a.created_at > b.created_at
                    \/ /\ a.created_at = b.created_at
                       /\ PositionOf(a.id) < PositionOf(b.id)

\* C8: getTranslationJobs returns exactly one record per creation that
\* createTranslationJob or uploadVideo carried out, none missing or twice.
C8_ListReturnsEveryCreationOnce ==
    last.op = "list" =>
        /\ last.result.kind = "list"
        /\ Len(last.result.jobs) = Cardinality(DOMAIN createdBy)
        /\ {last.result.jobs[i].id : i \in 1..Len(last.result.jobs)} = DOMAIN createdBy

\* C8 happens: one creation by each handler, then the list.
C8_Witness ==
    /\ last.op = "list"
    /\ Len(last.result.jobs) = 2
    /\ {createdBy[i] : i \in DOMAIN createdBy} = {"create", "upload"}

\* C9 as stated: of two concurrent updates of a job the later commit wins and
\* the earlier one's changes are discarded, so the row is what the later
\* request saw when it was called with only its own fields changed.
C9_LaterCommitDiscardsEarlier ==
    (UpdatedARow /\ last.overlapped) =>
        /\ last.result.kind = "job"
        /\ last.earlierKind = "job"
        /\ \A f \in UpdateFields :
              RowAt(last.id)[f] =
                  IF f \in Supplied(last.updateData) THEN last.updateData[f]
                  ELSE last.base[f]

\* C9 amended: both concurrent updates succeed; a field the later commit
\* supplies holds the later value, a field only the earlier commit supplies
\* keeps the earlier value, any other field is as it was.
C9_LaterCommitWinsPerField ==
    (UpdatedARow /\ last.overlapped) =>
        /\ last.result.kind = "job"
        /\ last.earlierKind = "job"
        /\ \A f \in UpdateFields :
              RowAt(last.id)[f] =
                  IF f \in Supplied(last.updateData) THEN last.updateData[f]
                  ELSE IF f \in Supplied(last.earlier) THEN last.earlier[f]
                  ELSE last.before[f]
        /\ RowAt(last.id).updated_at = last.result.job.updated_at

\* C9 happens: the two concurrent updates supply different fields.
C9_Witness ==
    /\ UpdatedARow
    /\ last.overlapped
    /\ Supplied(last.updateData) = {"status"}
    /\ Supplied(last.earlier) = {"transcript"}
    /\ Stored(1).status = "processing"
    /\ Stored(1).transcript = "Hi"

\* C10: every stored job has created_at <= updated_at.
C10_CreatedAtNotAfterUpdatedAt ==
    \A i \in 1..Len(translation_jobs) :
        translation_jobs[i].created_at <= translation_jobs[i].updated_at

\* The columns fixed at creation.
CreationColumns ==
    {"id", "original_filename", "original_file_path", "target_language", "created_at"}

\* C11: no step changes the id, original_filename, original_file_path,
\* target_language or created_at of a stored job, whatever update inputs the
\* gateway accepts, and no step removes a job.
C11_CreationFieldsNeverChange ==
    [][/\ Len(translation_jobs') >= Len(translation_jobs)
       /\ \A i \in 1..Len(translation_jobs), c \in CreationColumns :
             translation_jobs'[i][c] = translation_jobs[i][c]]_vars

\* C11 happens: an update whose raw input named original_filename and
\* target_language went through after the job's creation instant.
C11_Witness ==
    /\ UpdatedARow
    /\ last.updateData = NoUpdate
    /\ last.after.updated_at > last.after.created_at
    /\ last.after.original_filename = "test_video.mp4"
    /\ last.after.target_language = "es"

\* C12: an update carrying status t on a job in status s succeeds and leaves
\* the job in status t, for every s and t.
C12_AnyStatusFollowsAny ==
    (UpdatedARow /\ last.updateData.status # Absent) =>
        /\ last.result.kind = "job"
        /\ last.result.job.status = last.updateData.status
        /\ RowAt(last.id).status = last.updateData.status

\* C12 happens: a completed job goes back to pending.
C12_Witness ==
    /\ UpdatedARow
    /\ last.before.status = "completed"
    /\ last.updateData.status = "pending"
    /\ Stored(1).status = "pending"

\* The twelve language codes.
TwelveCodes ==
    {"en", "es", "fr", "de", "it", "pt", "ru", "ja", "ko", "zh", "ar", "hi"}

\* C13: a create request with an empty filename, an empty path or a language
\* outside the twelve codes, and an upload request with an empty filename or
\* such a language, gets a validation error, never reaches its handler, and
\* the rejection changes neither the table nor the storage.
C13_InvalidInputRejectedWithoutEffect ==
    /\ [](/\ \A input \in GatewayCreateInputs :
                (budget > 0 /\ (\/ input.original_filename = ""
                                \/ input.original_file_path = ""
                                \/ input.target_language \notin TwelveCodes))
                    => /\ ENABLED createTranslationJobRejected(input)
                       /\ ~ENABLED createTranslationJob(input)
          /\ \A input \in GatewayUploadInputs :
                (budget > 0 /\ (\/ input.filename = ""
                                \/ input.target_language \notin TwelveCodes))
                    => /\ ENABLED uploadVideoRejected(input)
                       /\ \A randomId \in RandomIds :
                             ~ENABLED uploadVideoCall(1, input, randomId)
          /\ last.op = "rejected" => last.result = ValidationError
          /\ \A i \in 1..Len(translation_jobs) :
                /\ translation_jobs[i].original_filename # ""
                /\ translation_jobs[i].original_file_path # ""
                /\ translation_jobs[i].target_language \in TwelveCodes)
    /\ [][(last'.op = "rejected" /\ budget' # budget /\ last' # last) =>
             /\ translation_jobs' = translation_jobs
             /\ id_seq' = id_seq
             /\ files' = files
             /\ dirs' = dirs]_vars

\* C13 happens: a create request with an empty path was refused after a job
\* had been stored, and the table still holds that job alone.
C13_Witness ==
    /\ last.op = "rejected"
    /\ last.procedure = "createTranslationJob"
    /\ last.input.original_filename = "clip.mp4"
    /\ last.input.original_file_path = ""
    /\ Len(translation_jobs) = 1
    /\ budget = 0

\* C17: an update request that carries detected_language as null, sent for a
\* job whose language is set, is not refused by the gateway.
C17_NullDetectedLanguageAccepted ==
    ~(/\ last.op = "rejected"
      /\ last.procedure = "updateTranslationJob"
      /\ last.input.raw.detected_language = Null
      /\ RowsWithId(last.input.id) # {}
      /\ RowAt(last.input.id).detected_language # Null)

\* s is a base64 encoding: groups of four characters of the alphabet, the
\* last group ending in at most two '='.
IsWellFormedBase64(s) ==
    /\ Len(s) % 4 = 0
    /\ \A i \in 1..Len(s) :
          \/ \E k \in 1..64 : B64Chars[k] = s[i]
          \/ /\ s[i] = "="
             /\ i >= Len(s) - 1
             /\ \A j \in i..Len(s) : s[j] = "="

\* C14: an upload whose file_data is no well-formed base64 encoding does not
\* return a job, so it stores none.
C14_MalformedPayloadFails ==
    last.op = "upload" => IsWellFormedBase64(last.input.file_data)

\* C15: the file at a generated path is absent or holds the whole decoded
\* payload, while the upload runs and after its write has failed.
C15_FileAbsentOrComplete ==
    /\ \A p \in Procs :
          req[p].op = "upload" =>
              \/ ~ExistsSync(WritePath(p))
              \/ ReadFile(WritePath(p)) = FileBuffer(p)
    /\ last.op = "upload_failed" =>
          \/ ~ExistsSync(FullPath(last.filePath))
          \/ ReadFile(FullPath(last.filePath)) = Base64Decode(last.input.file_data)

\* Where ./storage/uploads/videos leads once it is made.
UploadsPlace == WorkingDirectory \o <<"storage", "uploads", "videos">>

\* C18: the recorded path is /uploads/videos/<digits>_<token>_<filename>,
\* and every file written lies below ./storage/uploads/videos.
C18_PathFormAndNamespace ==
    /\ last.op = "upload" =>
          \E t \in 0..(MaxNow \div TicksPerMs), r \in RandomIds :
              last.after.original_file_path =
                  "/uploads/videos/" \o ToString(t) \o "_" \o r \o "_"
                      \o last.input.filename
    /\ \A f \in DOMAIN files :
          /\ Len(f) > Len(UploadsPlace)
          /\ SubSeq(f, 1, Len(UploadsPlace)) = UploadsPlace

\* The createTranslationJob input for what an upload stores.
UploadAsCreateInput(input, filePath) ==
    [original_filename |-> input.filename,
     original_file_path |-> filePath,
     target_language |-> input.target_language]

\* C16: the job uploadVideo stores and returns is the row createTranslationJob
\* inserts for (filename, generated path, target language) with the same id
\* and instant: pending, optional fields absent, created_at = updated_at.
C16_UploadStoresWhatCreateWould ==
    last.op = "upload" =>
        /\ createTranslationJobInputSchema(UploadAsCreateInput(last.input, last.filePath))
        /\ last.after =
              InsertRow(CreateValues(UploadAsCreateInput(last.input, last.filePath)),
                        last.after.id, last.after.created_at)
        /\ last.after.status = "pending"
        /\ \A f \in UpdateFields \ {"status"} : last.after[f] = Null
        /\ last.after.created_at = last.after.updated_at
        /\ last.result = JobResult(last.after)
        /\ \E i \in 1..Len(translation_jobs) :
              /\ translation_jobs[i].id = last.after.id
              /\ \A c \in Columns \ (UpdateFields \cup {"updated_at"}) :
                    translation_jobs[i][c] = last.after[c]

\* C16 happens: an upload stored its job next to one createTranslationJob made.
C16_Witness ==
    /\ last.op = "upload"
    /\ Len(translation_jobs) = 2
    /\ \E i \in DOMAIN createdBy : createdBy[i] = "create"
    /\ last.after.original_file_path = "/uploads/videos/1_k3x9qa_same-name.mp4"

\* C20: a job a creation returned stays stored: getTranslationJob returns it,
\* getTranslationJobs lists it, and no step of any procedure shortens the table.
C20_JobsAreNeverDeleted ==
    /\ [](/\ \A i \in DOMAIN createdBy : RowsWithId(Num(i)) # {}
          /\ (last.op = "get" /\ IsInteger(last.id)
                  /\ (last.id.num \div last.id.den) \in DOMAIN createdBy) =>
                /\ last.result.kind = "job"
                /\ last.result.job.id * last.id.den = last.id.num
          /\ last.op = "list" =>
                DOMAIN createdBy \subseteq
                    {last.result.jobs[i].id : i \in 1..Len(last.result.jobs)})
    /\ [][Len(translation_jobs') >= Len(translation_jobs)]_vars

\* C20 happens: a stored job that an update touched is still returned by
\* getTranslationJob.
C20_Witness ==
    /\ last.op = "get"
    /\ last.result.kind = "job"
    /\ last.result.job.id = 1
    /\ last.result.job.status = "failed"
    /\ last.result.job.updated_at > 0
    /\ budget = 0

\* C19: no two stored jobs share an id, every id handed back is stored once,
\* and a creation takes an id that no earlier creation returned and no
\* earlier INSERT, failed or not, used up.
C19_IdsUniqueNeverReused ==
    /\ [](/\ \A i, j \in 1..Len(translation_jobs) :
                translation_jobs[i].id = translation_jobs[j].id => i = j
          /\ Cardinality(DOMAIN createdBy) = Len(translation_jobs)
          /\ \A i \in 1..Len(translation_jobs) : translation_jobs[i].id < id_seq)
    /\ [][Len(translation_jobs') > Len(translation_jobs) =>
             /\ Len(translation_jobs') = Len(translation_jobs) + 1
             /\ translation_jobs'[Len(translation_jobs')].id \notin DOMAIN createdBy
             /\ translation_jobs'[Len(translation_jobs')].id >= id_seq
             /\ last'.result.kind = "job"
             /\ last'.result.job.id = translation_jobs'[Len(translation_jobs')].id]_vars

\* C19 happens: after a failed INSERT used up id 1, two uploads running
\* together got ids 2 and 3.
C19_Witness ==
    /\ last.op = "upload"
    /\ last.overlapped
    /\ last.earlier.id = 2
    /\ last.after.id = 3
    /\ Len(translation_jobs) = 2

\* C21: getSupportedLanguages returns twelve entries, one per language code,
\* with distinct codes and distinct names, ascending by name, and the same
\* sequence whatever ran before.
C21_LanguagesTwelveSortedStable ==
    last.op = "languages" =>
        LET languages == last.result.languages
        IN /\ last.result.kind = "languages"
           /\ Len(languages) = 12
           /\ {languages[i].code : i \in 1..Len(languages)} = TwelveCodes
           /\ \A i, j \in 1..Len(languages) :
                 i # j => /\ languages[i].code # languages[j].code
                          /\ languages[i].name # languages[j].name
           /\ \A i \in 1..(Len(languages) - 1) :
                 CompareLetters(languages[i].name, languages[i + 1].name) < 0
           /\ [i \in 1..Len(languages) |-> languages[i].code] =
                 <<"ar", "zh", "en", "fr", "de", "hi", "it", "ja", "ko", "pt", "ru", "es">>

\* C21 happens: the languages are asked for after a job was created and updated.
C21_Witness ==
    /\ last.op = "languages"
    /\ Len(translation_jobs) = 1
    /\ Stored(1).updated_at > Stored(1).created_at
    /\ last.result.languages[1].code = "ar"

\* C23 as stated: getTranslationJob returns exactly the stored values.
C23_GetReturnsStoredValuesExactly ==
    (last.op = "get" /\ last.result.kind = "job") =>
        last.result.job = RowAt(last.id)

\* C23 amended: getTranslationJob and getTranslationJobs change no row, no
\* file and no sequence value, and getTranslationJob returns the stored
\* values of an existing job, the two timestamps cut to the millisecond.
C23_ReadsArePure ==
    /\ []((last.op = "get" /\ RowsWithId(last.id) # {}) =>
            /\ last.result.kind = "job"
            /\ \A c \in Columns \ {"created_at", "updated_at"} :
                  last.result.job[c] = RowAt(last.id)[c]
            /\ last.result.job.created_at = ToDate(RowAt(last.id).created_at)
            /\ last.result.job.updated_at = ToDate(RowAt(last.id).updated_at))
    /\ [][(last'.op \in {"get", "list"} /\ budget' # budget) =>
             /\ translation_jobs' = translation_jobs
             /\ id_seq' = id_seq
             /\ files' = files
             /\ dirs' = dirs]_vars

\* C23 happens: a job stored between two milliseconds is read back.
C23_Witness ==
    /\ last.op = "get"
    /\ last.result.kind = "job"
    /\ RowAt(last.id).created_at = 1
    /\ last.result.job.created_at = 0

\* The four statuses.
FourStatuses == {"pending", "processing", "completed", "failed"}

\* C24: every stored job has one of the four statuses, a target language of
\* the twelve codes, and a detected language that is absent or one of them.
C24_StoredEnumsStayInRange ==
    \A i \in 1..Len(translation_jobs) :
        /\ translation_jobs[i].status \in FourStatuses
        /\ translation_jobs[i].target_language \in TwelveCodes
        /\ translation_jobs[i].detected_language \in TwelveCodes \cup {Null}

\* C24 happens: requests carrying a status and a language outside the sets
\* were refused, the stored job keeping its values.
C24_Witness ==
    /\ last.op = "rejected"
    /\ last.procedure = "updateTranslationJob"
    /\ last.input.raw.detected_language = "xx"
    /\ Len(translation_jobs) = 1
    /\ Stored(1).detected_language = "en"
    /\ Stored(1).status = "completed"

\* C27: a commit of one of two concurrent updates of a job never leaves
\* updated_at below the value stored before it.
C27_UpdatedAtNeverDecreases ==
    (UpdatedARow /\ last.overlapped) =>
        last.after.updated_at >= last.before.updated_at

\* The fields both of two concurrent updates supply.
SuppliedByBoth == Supplied(last.updateData) \cap Supplied(last.earlier)

\* C28: after two concurrent updates of a job have both committed, a field
\* only one of them supplies holds that call's value, and a field both
\* supply holds the value of the later commit.
C28_DisjointUpdatesBothKept ==
    (UpdatedARow /\ last.overlapped) =>
        /\ \A f \in Supplied(last.earlier) \ SuppliedByBoth :
              RowAt(last.id)[f] = last.earlier[f]
        /\ \A f \in Supplied(last.updateData) \ SuppliedByBoth :
              RowAt(last.id)[f] = last.updateData[f]
        /\ \A f \in SuppliedByBoth : RowAt(last.id)[f] = last.updateData[f]

\* C28 happens: the transcript update commits after the status update that
\* was called later.
C28_Witness ==
    /\ UpdatedARow
    /\ last.overlapped
    /\ Supplied(last.updateData) = {"transcript"}
    /\ Supplied(last.earlier) = {"status"}
    /\ last.proc = 1
    /\ Stored(1).status = "processing"
    /\ Stored(1).transcript = "Hi"

\* What a call whose storage failed leaves in last.op.
FailedOps ==
    {"create_failed", "get_failed", "list_failed", "update_failed", "upload_failed"}

\* C22: a storage failure inside a handler is reported as an error, never as
\* a normal result, and ends the call: the handler does not go back to the
\* operation that failed, and no record is stored or changed.
C22_StorageFailureIsReported ==
    /\ [](last.op \in FailedOps => last.result.kind = "error")
    /\ [][(last' # last /\ last'.op \in FailedOps) =>
             /\ \A p \in Procs : pc'[p] # pc[p] =>
                   (pc'[p] = "idle" /\ req'[p] = NoReq)
             /\ translation_jobs' = translation_jobs
             /\ budget' \in {budget, budget - 1}]_vars

\* C22 happens: an update of a stored job failed and the job is as created.
C22_Witness ==
    /\ last.op = "update_failed"
    /\ last.result.kind = "error"
    /\ Stored(1).status = "pending"
    /\ pc[1] = "idle"

\* C26: after an upload that failed, a file is at its path only when the
\* insert is the step that failed.
C26_FailedUploadLeavesOnlyInsertResidue ==
    (last.op = "upload_failed" /\ last.stage # "insert") =>
        ~ExistsSync(FullPath(last.filePath))

\* C25: from the moment an upload has stored its job, the file at ./storage +
\* original_file_path exists and holds the decoded file_data of that upload.
C25_StoredFileIsTheUploadedOne ==
    last.op = "upload" =>
        /\ ExistsSync(FullPath(last.after.original_file_path))
        /\ ReadFile(FullPath(last.after.original_file_path)) =
              Base64Decode(last.input.file_data)

\* C29: the job list of the page never holds two entries with the same id.
C29_ClientListHasNoDuplicateIds ==
    \A i, j \in 1..Len(client.jobs) :
        i # j => client.jobs[i].id # client.jobs[j].id

\* C30: when an upload settles, isUploading is false again; the chosen file
\* and language are cleared when it succeeded and still there when it failed.
C30_FormResetOnlyAfterSuccess ==
    [][(client.isUploading /\ ~client'.isUploading) =>
          IF client'.uploadError = Null
          THEN /\ client'.selectedFile = NoFile
               /\ client'.targetLanguage = ""
          ELSE /\ client'.selectedFile = client.selectedFile
               /\ client'.targetLanguage = client.targetLanguage
               /\ client'.selectedFile # NoFile
               /\ client'.targetLanguage # ""]_vars

====
